---- MODULE Spec2Model ----
(***************************************************************************)
(* Model of jina/peapods/pods/config.py: PodConfig, the mixin that expands *)
(* the arguments of one Pod into its Kubernetes deployments (a head and    *)
(* one worker per shard, or the single gateway) and renders them.          *)
(*                                                                         *)
(* Python objects live on a heap, so that copy.copy, copy.deepcopy and     *)
(* attribute assignment keep the aliasing they have in the code:           *)
(*   heap.ns   - the argparse.Namespace objects, heap.ns[SELF] = self.args *)
(*   heap.maps - the dict objects a Namespace refers to (uses_with)        *)
(* A reference is an index into one of the two sequences; 0 is None.       *)
(* Strings that the code slices (connection_list) are sequences of pieces. *)
(***************************************************************************)
EXTENDS Integers, Sequences, FiniteSets, TLC

\* ----- bounds of the model
MaxShards == 2
MaxReplicas == 2

\* ----- values of the inputs
None == "None"
NoneInt == -1
NoList == <<"None">>
PodNames == {"gateway", "enc"}
Namespaces == {"ns", "default"}
UsesValues == {"docker://exec"}
FilterValues == {None, "docker://filter"}
PodAddressLists == {NoList, <<"enc-head.ns.svc:K8S_PORT_IN">>}
UsesWithDict == <<<<"param", "value">>>>
PresetConnectionList == <<"{\"0\": \"preset\"}">>

\* ----- names imported by config.py whose values are set outside it
default_executor == "__default_executor__"
version == "__version__"
K8S_PORT_IN == "K8S_PORT_IN"
K8S_PORT_USES_BEFORE == "K8S_PORT_USES_BEFORE"
K8S_PORT_USES_AFTER == "K8S_PORT_USES_AFTER"
HEAD == "PeaRoleType.HEAD"
GATEWAY == "PeaRoleType.GATEWAY"

\* The docker registry's answer to one requests.get(url).json(): either the
\* request (or its decoding) raises, or it yields the set of tag names.
Responses ==
    { [ok |-> FALSE, tags |-> {}],
      [ok |-> TRUE, tags |-> {version, "master"}],
      [ok |-> TRUE, tags |-> {"master"}] }

MaxLookups == MaxShards + 1

VARIABLES
    heap,      \* the Python heap: [ns |-> Seq(Namespace), maps |-> Seq(dict)]
    op,        \* the operation of PodConfig called last
    raised,    \* the exception that call raised, "none" when it returned
    parsed,    \* what _get_deployment_args returned (references into heap)
    built,     \* the _K8sDeployment objects the call constructed, in order
    units,     \* what to_k8s_yaml returned: the (name, yamls) pairs
    lookups    \* how many times the call ran _get_base_executor_version

vars == <<heap, op, raised, parsed, built, units, lookups>>

SELF == 1

\* Python truthiness of an optional string (if uses_before: ...)
Truthy(s) == s # None /\ s # ""

\* ----- _get_base_executor_version (lines 12-22)
\* [raised, value]: the request raising is not caught.
get_base_executor_version(resp) ==
    IF ~resp.ok
    THEN [raised |-> "RequestException", value |-> None]
    ELSE [raised |-> "none",
          value |-> IF version \in resp.tags THEN version ELSE "master"]

\* ----- copy.copy / copy.deepcopy of a Namespace, and attribute assignment
\* Faulty variant: no copy is made, the result is the argument itself.
copy_copy_alias(h, a) == [heap |-> h, ref |-> a]

\* copy.copy: a new Namespace with the same attribute values, so a mapping
\* the original refers to is shared with the copy.
copy_copy(h, a) ==
    [heap |-> [h EXCEPT !.ns = Append(h.ns, h.ns[a])], ref |-> Len(h.ns) + 1]

\* copy.deepcopy: a new Namespace and a new copy of the mapping it refers to.
copy_deepcopy(h, a) ==
    LET w == h.ns[a].uses_with
        maps2 == IF w = 0 THEN h.maps ELSE Append(h.maps, h.maps[w])
        w2 == IF w = 0 THEN 0 ELSE Len(h.maps) + 1
    IN [heap |-> [ns |-> Append(h.ns, [h.ns[a] EXCEPT !.uses_with = w2]),
                  maps |-> maps2],
        ref |-> Len(h.ns) + 1]

SetAttrs(h, ref, new) == [h EXCEPT !.ns[ref] = new]

\* ----- PodConfig.name (line 32) and PodConfig.k8s_namespace (lines 305-310)
\* name is the Pod's name, the name of its arguments.
SelfName(h) == h.ns[SELF].name

\* The method: called, it returns self.args.k8s_namespace.
k8s_namespace(h) == h.ns[SELF].k8s_namespace

\* Line 233 formats self.k8s_namespace without calling it: k8s_namespace is
\* a plain method (no @property), so the text is the bound method's repr.
FormatSelfK8sNamespace(h) ==
    "<bound method PodConfig.k8s_namespace of <PodConfig object>>"

\* ----- the names of the worker units (line 290) and of their services
\* in the head's connection list (line 232)
\* Faulty variant: the shard index is appended even for a single worker.
WorkerNameAlwaysIndexed(name, i, n) == name \o "-" \o ToString(i)

WorkerName(name, i, n) ==
    IF n > 1 THEN name \o "-" \o ToString(i) ELSE name

ConnectionName(name, i, shards) ==
    IF shards > 1 THEN name \o "-" \o ToString(i) ELSE name

\* One pass of the loop body of line 233: the text appended for shard i,
\* the trailing comma a piece of its own.
ConnectionEntry(i, name, nsText) ==
    << "\"" \o ToString(i) \o "\": \"" \o name \o "." \o nsText
         \o ".svc:" \o K8S_PORT_IN \o "\"",
       "," >>

RECURSIVE ConnectionLoop(_, _, _, _, _)
ConnectionLoop(i, shards, selfName, nsText, acc) ==
    IF i >= shards THEN acc
    ELSE ConnectionLoop(i + 1, shards, selfName, nsText,
             acc \o ConnectionEntry(i, ConnectionName(selfName, i, shards), nsText))

\* connection_list[:-1]: the last piece is always a single character
\* (the comma, or the opening brace when there is no shard).
DropLast(s) == SubSeq(s, 1, Len(s) - 1)

\* Lines 230-235.
BuildConnectionList(shards, selfName, nsText) ==
    DropLast(ConnectionLoop(0, shards, selfName, nsText, <<"{">>)) \o <<"}">>

\* Line 229: the connection pool is managed manually when k8s's is disabled.
\* Faulty variant: the test without its "not".
ManualConnectionListInverted(args) == args.k8s_connection_pool

ManualConnectionList(args) == ~args.k8s_connection_pool

\* Lines 223-237: the attributes set on the head's copy of args.
HeadFields(hd, args, selfName, nsText) ==
    [hd EXCEPT
       !.replicas = 1,
       !.runtime_cls = "HeadRuntime",
       !.pea_role = HEAD,
       !.port_in = K8S_PORT_IN,
       !.connection_list =
           IF ManualConnectionList(args)
           THEN BuildConnectionList(args.shards, selfName, nsText)
           ELSE @]

\* Lines 222-237, c being copy.copy(args): the head's arguments.
HeadArgsOf(c, args, selfName, nsText) ==
    [heap |-> SetAttrs(c.heap, c.ref,
                       HeadFields(c.heap.ns[c.ref], args, selfName, nsText)),
     ref |-> c.ref]

HeadArgs(h, a) ==
    HeadArgsOf(copy_copy(h, a), h.ns[a], SelfName(h), FormatSelfK8sNamespace(h))

\* Lines 239-250: the addresses of the filters, set on the head.
FilterAddresses(hd, uses_before, uses_after) ==
    LET b == IF Truthy(uses_before)
             THEN [hd EXCEPT !.uses_before_address =
                      "127.0.0.1:" \o K8S_PORT_USES_BEFORE]
             ELSE hd
    IN IF Truthy(uses_after)
       THEN [b EXCEPT !.uses_after_address = "127.0.0.1:" \o K8S_PORT_USES_AFTER]
       ELSE b

\* Lines 254-259: what the loop sets on the deep copy for shard i.
\* Faulty variant: lines 255-256 left out, the workers keep the filters.
WorkerFieldsKeepFilters(cargs, i, isGateway) ==
    LET w == [cargs EXCEPT !.shard_id = i, !.port_in = K8S_PORT_IN]
    IN IF isGateway THEN [w EXCEPT !.pea_role = GATEWAY] ELSE w

WorkerFields(cargs, i, isGateway) ==
    LET w == [cargs EXCEPT
                !.shard_id = i,
                !.uses_before = None,
                !.uses_after = None,
                !.port_in = K8S_PORT_IN]
    IN IF isGateway THEN [w EXCEPT !.pea_role = GATEWAY] ELSE w

\* Lines 252-260: one deep copy of args per shard. c is the copy for shard i.
RECURSIVE WorkerLoop(_, _, _, _)
WorkerLoopStep(c, a, i, refs, isGateway) ==
    WorkerLoop(SetAttrs(c.heap, c.ref, WorkerFields(c.heap.ns[c.ref], i, isGateway)),
               a, i + 1, Append(refs, c.ref))

WorkerLoop(h, a, i, refs) ==
    IF i >= h.ns[a].shards THEN [heap |-> h, refs |-> refs]
    ELSE WorkerLoopStep(copy_deepcopy(h, a), a, i, refs, h.ns[a].name = "gateway")

\* ----- PodConfig._get_deployment_args (lines 212-262)
\* [heap, head_deployment, deployments, raised].
\* Line 262, wl being what the loop of lines 252-260 built.
ExpandReturn(wl, head) ==
    [heap |-> wl.heap, head_deployment |-> head, deployments |-> wl.refs,
     raised |-> "none"]

\* Lines 239-262, hd being the head of lines 221-237 (ref 0: None). With no
\* head (the gateway) lines 239-250 assign an attribute of None, which raises
\* AttributeError.
ExpandFrom(hd, a, uses_before, uses_after) ==
    IF hd.ref = 0
    THEN IF Truthy(uses_before) \/ Truthy(uses_after)
         THEN [heap |-> hd.heap, head_deployment |-> 0, deployments |-> <<>>,
               raised |-> "AttributeError"]
         ELSE ExpandReturn(WorkerLoop(hd.heap, a, 0, <<>>), 0)
    ELSE ExpandReturn(
             WorkerLoop(SetAttrs(hd.heap, hd.ref,
                            FilterAddresses(hd.heap.ns[hd.ref], uses_before, uses_after)),
                        a, 0, <<>>),
             hd.ref)

get_deployment_args(h, a) ==
    ExpandFrom(IF h.ns[a].name # "gateway" THEN HeadArgs(h, a)
               ELSE [heap |-> h, ref |-> 0],
               a, h.ns[a].uses_before, h.ns[a].uses_after)

\* ----- PodConfig._K8sDeployment.__init__ (lines 44-65)
\* dns_name and cluster_address play no part in what is modelled here.
K8sDeployment(h, name, ver, pea_type, shard_id, deployment_args) ==
    [name |-> name,
     head_port_in |-> K8S_PORT_IN,
     version |-> ver,
     pea_type |-> pea_type,
     jina_pod_name |-> SelfName(h),
     shard_id |-> shard_id,
     common_args |-> SELF,
     deployment_args |-> deployment_args,
     num_replicas |-> h.ns[deployment_args].replicas]

\* ----- PodConfig.head_deployment (lines 264-280)
\* [heap, deps, isNone, raised, lookups]: deps holds the head's descriptor,
\* isNone says the property returned None.
HeadResult(hp, deps, isNone, exc, n) ==
    [heap |-> hp, deps |-> deps, isNone |-> isNone, raised |-> exc, lookups |-> n]

\* Lines 271-280, p2 being the expansion of line 278 and v the version.
HeadBuild(p2, v, selfName) ==
    IF p2.raised # "none" THEN HeadResult(p2.heap, <<>>, FALSE, p2.raised, 1)
    ELSE HeadResult(p2.heap,
             << K8sDeployment(p2.heap, selfName \o "-head", v.value, "head",
                              NoneInt, p2.head_deployment) >>,
             FALSE, "none", 1)

\* Lines 269-280, p1 being the expansion of line 269 and v the outcome of the
\* lookup of line 274, which runs before the expansion of line 278.
HeadFrom(p1, v, selfName) ==
    IF p1.raised # "none" THEN HeadResult(p1.heap, <<>>, FALSE, p1.raised, 0)
    ELSE IF p1.head_deployment = 0 THEN HeadResult(p1.heap, <<>>, TRUE, "none", 0)
    ELSE IF v.raised # "none" THEN HeadResult(p1.heap, <<>>, FALSE, v.raised, 1)
    ELSE HeadBuild(get_deployment_args(p1.heap, SELF), v, selfName)

head_deployment(h, resp) ==
    HeadFrom(get_deployment_args(h, SELF), get_base_executor_version(resp),
             SelfName(h))

\* ----- PodConfig.worker_deployments (lines 282-303)
\* [heap, deps, raised, lookups]. The loop of lines 289-302: v is the outcome
\* of the lookup of line 295 for worker i (counted from 1), resps[k + 1] the
\* registry's answer to the next lookup when k were made before.
RECURSIVE WorkerDeploymentLoop(_, _, _, _, _, _)
WorkerDeploymentStep(h, refs, i, resps, k, deps, v) ==
    IF v.raised # "none"
    THEN [heap |-> h, deps |-> <<>>, raised |-> v.raised, lookups |-> k + 1]
    ELSE WorkerDeploymentLoop(h, refs, i + 1, resps, k + 1,
             Append(deps,
                 K8sDeployment(h, WorkerName(SelfName(h), i - 1, Len(refs)),
                               v.value, "worker", i - 1, refs[i])))

WorkerDeploymentLoop(h, refs, i, resps, k, deps) ==
    IF i > Len(refs)
    THEN [heap |-> h, deps |-> deps, raised |-> "none", lookups |-> k]
    ELSE WorkerDeploymentStep(h, refs, i, resps, k, deps,
                              get_base_executor_version(resps[k + 1]))

WorkersFrom(p, resps, k) ==
    IF p.raised # "none"
    THEN [heap |-> p.heap, deps |-> <<>>, raised |-> p.raised, lookups |-> k]
    ELSE WorkerDeploymentLoop(p.heap, p.deployments, 1, resps, k, <<>>)

worker_deployments(h, resps, k) ==
    WorkersFrom(get_deployment_args(h, SELF), resps, k)

\* ----- rendering: the arguments handed to kubernetes_deployment
\* kubernetes_deployment.get_image_name is outside this file: an opaque tag.
get_image_name(d, uses) ==
    IF uses = default_executor
    THEN "jinaai/jina:" \o d.version \o "-py38-perf"
    ELSE "image(" \o uses \o ")"

\* _get_container_args and _construct_runtime_container_args (lines 97-146).
\* arguments is the Namespace that get_cli_params serializes.
get_container_args(h, d, uses, pea_type, port_in) ==
    LET w == h.ns[d.deployment_args].uses_with
    IN [command |-> "executor",
        uses |-> IF uses # default_executor THEN "config.yml" ELSE uses,
        runtime_cls |-> IF (IF pea_type # None THEN pea_type ELSE d.pea_type) = "worker"
                        THEN "WorkerRuntime" ELSE "HeadRuntime",
        pea_id |-> d.shard_id,
        uses_with |-> IF w = 0 THEN <<>> ELSE h.maps[w],
        port_in |-> port_in,
        arguments |-> d.deployment_args]

\* get_runtime_yamls (lines 148-210). An absent container is the empty
\* sequence, a present one a sequence of one set of container arguments.
get_runtime_yamls(h, d, namespace) ==
    LET da == h.ns[d.deployment_args]
        hasBefore == Truthy(da.uses_before)
        hasAfter == Truthy(da.uses_after)
    IN [name |-> d.name,
        namespace |-> namespace,
        image_name |-> get_image_name(d, da.uses),
        image_name_uses_before |->
            IF hasBefore THEN get_image_name(d, da.uses_before) ELSE None,
        image_name_uses_after |->
            IF hasAfter THEN get_image_name(d, da.uses_after) ELSE None,
        container_args |-> << get_container_args(h, d, da.uses, None, None) >>,
        container_args_uses_before |->
            IF hasBefore
            THEN << get_container_args(h, d, da.uses_before, "worker",
                                       K8S_PORT_USES_BEFORE) >>
            ELSE <<>>,
        container_args_uses_after |->
            IF hasAfter
            THEN << get_container_args(h, d, da.uses_after, "worker",
                                       K8S_PORT_USES_AFTER) >>
            ELSE <<>>,
        replicas |-> d.num_replicas,
        jina_pod_name |-> d.jina_pod_name,
        pea_type |-> d.pea_type,
        shard_id |-> d.shard_id]

\* get_gateway_yamls (lines 67-95): [heap, yamls]; c is copy.copy of the
\* common arguments, on which pods_addresses is set.
GatewayYamlsOf(c, d, namespace, pod_addresses) ==
    [heap |-> SetAttrs(c.heap, c.ref,
                  [c.heap.ns[c.ref] EXCEPT
                     !.pods_addresses =
                         IF c.heap.ns[c.ref].k8s_connection_pool
                         THEN <<>> ELSE pod_addresses]),
     yamls |->
       [name |-> d.name,
        namespace |-> namespace,
        image_name |-> "jinaai/jina:" \o d.version \o "-py38-standard",
        image_name_uses_before |-> None,
        image_name_uses_after |-> None,
        container_args |->
            << [command |-> "gateway", uses |-> None, runtime_cls |-> None,
                pea_id |-> NoneInt, uses_with |-> <<>>, port_in |-> None,
                arguments |-> c.ref] >>,
        container_args_uses_before |-> <<>>,
        container_args_uses_after |-> <<>>,
        replicas |-> 1,
        jina_pod_name |-> "gateway",
        pea_type |-> "gateway",
        shard_id |-> NoneInt]]

get_gateway_yamls(h, d, namespace, pod_addresses) ==
    GatewayYamlsOf(copy_copy(h, d.common_args), d, namespace, pod_addresses)

\* The comprehension of lines 332-335.
RenderAll(h, deps, namespace) ==
    [i \in 1..Len(deps) |->
        [name |-> deps[i].name, yamls |-> get_runtime_yamls(h, deps[i], namespace)]]

\* ----- PodConfig.to_k8s_yaml (lines 312-335)
\* [heap, built, units, raised, lookups]
YamlResult(hp, deps, us, exc, n) ==
    [heap |-> hp, built |-> deps, units |-> us, raised |-> exc, lookups |-> n]

\* Lines 321-328, gy being what get_gateway_yamls returned for gw.deps[1].
GatewayReturn(gw, gy) ==
    YamlResult(gy.heap, gw.deps, << [name |-> "gateway", yamls |-> gy.yamls] >>,
               "none", gw.lookups)

\* Lines 321-328, gw being self.worker_deployments: indexing an empty list
\* raises IndexError.
GatewayFrom(gw, namespace, pod_addresses) ==
    IF gw.raised # "none" THEN YamlResult(gw.heap, <<>>, <<>>, gw.raised, gw.lookups)
    ELSE IF Len(gw.deps) = 0
         THEN YamlResult(gw.heap, gw.deps, <<>>, "IndexError", gw.lookups)
    ELSE GatewayReturn(gw,
             get_gateway_yamls(gw.heap, gw.deps[1], namespace, pod_addresses))

\* Lines 331-335, hd being self.head_deployment and wd self.worker_deployments:
\* a head of None has no name, reading it raises AttributeError.
RuntimeReturn(hd, wd, namespace) ==
    IF wd.raised # "none" THEN YamlResult(wd.heap, hd.deps, <<>>, wd.raised, wd.lookups)
    ELSE IF hd.isNone
         THEN YamlResult(wd.heap, wd.deps, <<>>, "AttributeError", wd.lookups)
    ELSE YamlResult(wd.heap, hd.deps \o wd.deps,
                    RenderAll(wd.heap, hd.deps \o wd.deps, namespace),
                    "none", wd.lookups)

\* Lines 330-335, hd being self.head_deployment.
RuntimeFrom(hd, namespace, resps) ==
    IF hd.raised # "none" THEN YamlResult(hd.heap, <<>>, <<>>, hd.raised, hd.lookups)
    ELSE RuntimeReturn(hd, worker_deployments(hd.heap, resps, hd.lookups), namespace)

to_k8s_yaml(h, namespace, pod_addresses, resps) ==
    IF SelfName(h) = "gateway"
    THEN GatewayFrom(worker_deployments(h, resps, 0), namespace, pod_addresses)
    ELSE RuntimeFrom(head_deployment(h, resps[1]), namespace, resps)

\* ----- the state machine
\* The arguments of a Pod as its parser leaves them: the derived fields
\* (shard_id, port_in, pea_role, ...) are not set yet.
PodArgs(name, shards, replicas, uses, ub, ua, w, pool, ns, cl) ==
    [name |-> name, shards |-> shards, replicas |-> replicas, uses |-> uses,
     uses_before |-> ub, uses_after |-> ua, uses_with |-> w,
     k8s_connection_pool |-> pool, k8s_namespace |-> ns,
     connection_list |-> cl,
     shard_id |-> NoneInt, port_in |-> None, pea_role |-> None,
     runtime_cls |-> None, uses_before_address |-> None,
     uses_after_address |-> None, pods_addresses |-> NoList]

NoParsed == [head_deployment |-> 0, deployments |-> <<>>]

\* What the caller holds once it has dropped a call's result: self.args and
\* what self.args refers to.
CallerHeap(h) ==
    [ns |-> <<h.ns[SELF]>>,
     maps |-> IF h.ns[SELF].uses_with = 0 THEN <<>>
              ELSE <<h.maps[h.ns[SELF].uses_with]>>]

Init ==
    \E name \in PodNames, shards \in 0..MaxShards, replicas \in 0..MaxReplicas,
       uses \in UsesValues, ub \in FilterValues, ua \in FilterValues,
       w \in 0..1, pool \in BOOLEAN, ns \in Namespaces,
       cl \in {NoList, PresetConnectionList} :
        /\ heap = [ns |-> << PodArgs(name, shards, replicas, uses, ub, ua, w,
                                     pool, ns, cl) >>,
                   maps |-> IF w = 0 THEN <<>> ELSE <<UsesWithDict>>]
        /\ op = "idle"
        /\ raised = "none"
        /\ parsed = NoParsed
        /\ built = <<>>
        /\ units = <<>>
        /\ lookups = 0

\* A caller runs self._get_deployment_args(self.args).
Expand ==
    /\ op = "idle"
    /\ LET r == get_deployment_args(heap, SELF)
       IN /\ heap' = r.heap
          /\ op' = "_get_deployment_args"
          /\ raised' = r.raised
          /\ parsed' = [head_deployment |-> r.head_deployment,
                        deployments |-> r.deployments]
          /\ built' = <<>>
          /\ units' = <<>>
          /\ lookups' = 0

\* A caller reads the property head_deployment.
HeadDeployment ==
    /\ op = "idle"
    /\ \E resp \in Responses :
        LET r == head_deployment(heap, resp)
        IN /\ heap' = r.heap
           /\ op' = "head_deployment"
           /\ raised' = r.raised
           /\ parsed' = NoParsed
           /\ built' = r.deps
           /\ units' = <<>>
           /\ lookups' = r.lookups

\* A caller reads the property worker_deployments.
WorkerDeployments ==
    /\ op = "idle"
    /\ \E resps \in [1..MaxLookups -> Responses] :
        LET r == worker_deployments(heap, resps, 0)
        IN /\ heap' = r.heap
           /\ op' = "worker_deployments"
           /\ raised' = r.raised
           /\ parsed' = NoParsed
           /\ built' = r.deps
           /\ units' = <<>>
           /\ lookups' = r.lookups

\* A caller runs to_k8s_yaml(k8s_namespace, pod_addresses).
ToK8sYaml ==
    /\ op = "idle"
    /\ \E namespace \in Namespaces, pod_addresses \in PodAddressLists,
          resps \in [1..MaxLookups -> Responses] :
        LET r == to_k8s_yaml(heap, namespace, pod_addresses, resps)
        IN /\ heap' = r.heap
           /\ op' = "to_k8s_yaml"
           /\ raised' = r.raised
           /\ parsed' = NoParsed
           /\ built' = r.built
           /\ units' = r.units
           /\ lookups' = r.lookups

\* The caller is done with what the call returned (or raised) and drops it;
\* the Pod and its arguments stay, ready for the next call.
Release ==
    /\ op # "idle"
    /\ heap' = CallerHeap(heap)
    /\ op' = "idle"
    /\ raised' = "none"
    /\ parsed' = NoParsed
    /\ built' = <<>>
    /\ units' = <<>>
    /\ lookups' = 0

Next == Expand \/ HeadDeployment \/ WorkerDeployments \/ ToK8sYaml \/ Release

Spec == Init /\ [][Next]_vars

\* ======================= the claims =======================
SelfArgs == heap.ns[SELF]
IsGateway == SelfArgs.name = "gateway"
Returned(o) == op = o /\ raised = "none"
\* The counts a Pod's arguments are meant to have.
ValidCounts == SelfArgs.shards >= 1 /\ SelfArgs.replicas >= 1

\* The head's and the workers' expanded arguments a call left behind:
\* what _get_deployment_args returned, or what the descriptors built by
\* head_deployment / worker_deployments / to_k8s_yaml hold.
HeadRefs ==
    (IF parsed.head_deployment # 0 THEN {parsed.head_deployment} ELSE {})
    \cup {built[i].deployment_args : i \in {j \in 1..Len(built) : built[j].pea_type = "head"}}
WorkerRefs ==
    {parsed.deployments[i] : i \in 1..Len(parsed.deployments)}
    \cup {built[i].deployment_args : i \in {j \in 1..Len(built) : built[j].pea_type = "worker"}}

\* C1: a returned to_k8s_yaml of a non-gateway Pod with shards >= 1 has
\* 1 + shards entries: "<name>-head", then the workers in ascending shard
\* order, named "<name>" for one shard and "<name>-<i>" for several.
C1_UnitNamesInOrder ==
    (Returned("to_k8s_yaml") /\ ~IsGateway /\ SelfArgs.shards >= 1) =>
        /\ Len(units) = 1 + SelfArgs.shards
        /\ units[1].name = SelfArgs.name \o "-head"
        /\ \A i \in 0..(SelfArgs.shards - 1) :
              units[i + 2].name =
                  IF SelfArgs.shards = 1 THEN SelfArgs.name
                  ELSE SelfArgs.name \o "-" \o ToString(i)

C1_Witness ==
    /\ Returned("to_k8s_yaml") /\ ~IsGateway /\ SelfArgs.shards = 2
    /\ Len(units) = 3 /\ units[3].name = "enc-1"

\* C2: for the Pod named "gateway", whatever its shards and replicas (>= 1),
\* filters and pooling mode, to_k8s_yaml returns exactly one entry named "gateway" and
\* _get_deployment_args returns no head. (Calls whose version lookup raised
\* are left aside: they are C6's.)
C2_GatewaySingleEntry ==
    (IsGateway /\ ValidCounts /\ raised # "RequestException") =>
        /\ op = "to_k8s_yaml" =>
              (raised = "none" /\ Len(units) = 1 /\ units[1].name = "gateway")
        /\ op = "_get_deployment_args" =>
              (raised = "none" /\ parsed.head_deployment = 0)

\* The connection list the claim C3 describes, piece by piece.
ExpectedConnectionList(shards, name, ns) ==
    <<"{">>
    \o [k \in 1..(2 * shards - 1) |->
          IF k % 2 = 0 THEN ","
          ELSE "\"" \o ToString((k - 1) \div 2) \o "\": \""
               \o (IF shards > 1 THEN name \o "-" \o ToString((k - 1) \div 2) ELSE name)
               \o "." \o ns \o ".svc:" \o K8S_PORT_IN \o "\""]
    \o <<"}">>

\* C3: with pooling disabled on a non-gateway Pod N with namespace NS and
\* S >= 1 shards, the head's connection_list has the keys "0" .. "S-1" in
\* order, no trailing separator, key i mapping to "N-i.NS.svc:<port>"
\* (S > 1) or "N.NS.svc:<port>" (S = 1).
C3_ConnectionListAddresses ==
    (Returned("_get_deployment_args") /\ ~IsGateway
        /\ ~SelfArgs.k8s_connection_pool /\ ValidCounts) =>
        heap.ns[parsed.head_deployment].connection_list =
            ExpectedConnectionList(SelfArgs.shards, SelfArgs.name, k8s_namespace(heap))

\* C4: one to_k8s_yaml call runs the version lookup at most once, and all
\* the descriptors it builds carry that one version.
C4_LookupAtMostOnce ==
    (Returned("to_k8s_yaml") /\ ValidCounts) =>
        /\ lookups <= 1
        /\ \A i, j \in 1..Len(built) : built[i].version = built[j].version

\* C5: to_k8s_yaml on a Pod with shards = 0 or replicas = 0 fails with a
\* configuration error and returns no entry, not even the head's. (Stated
\* for the Pods that have a head; calls whose version lookup raised are left
\* aside: they are C6's.)
C5_ZeroCountsRejected ==
    (op = "to_k8s_yaml" /\ ~IsGateway /\ raised # "RequestException"
        /\ (SelfArgs.shards = 0 \/ SelfArgs.replicas = 0)) =>
        (raised = "ConfigurationError" /\ units = <<>>)

\* C6: a failing version lookup is never surfaced to the caller of
\* to_k8s_yaml: the lookup falls back to "master" and the call returns its
\* complete list.
C6_LookupFailureContained ==
    (op = "to_k8s_yaml" /\ ValidCounts) => raised # "RequestException"

\* C7: on a non-gateway Pod whose arguments carry no connection_list, the
\* head's arguments have a connection_list exactly when pooling is disabled
\* (none when it is enabled, for every shard count), and no worker's
\* arguments ever have one.
C7_ConnectionListOnlyWithoutPool ==
    (~IsGateway /\ SelfArgs.connection_list = NoList /\ raised = "none") =>
        /\ \A r \in HeadRefs :
              (heap.ns[r].connection_list # NoList) <=> ~SelfArgs.k8s_connection_pool
        /\ \A r \in WorkerRefs : heap.ns[r].connection_list = NoList

C7_Witness ==
    /\ Returned("_get_deployment_args") /\ ~IsGateway
    /\ SelfArgs.connection_list = NoList /\ SelfArgs.k8s_connection_pool
    /\ SelfArgs.shards = 2 /\ Len(parsed.deployments) = 2
    /\ heap.ns[parsed.head_deployment].connection_list = NoList

\* self.args by value: its fields, and the mapping uses_with refers to.
SelfArgsValue ==
    << heap.ns[SELF],
       IF heap.ns[SELF].uses_with = 0 THEN <<>> ELSE heap.maps[heap.ns[SELF].uses_with] >>

\* C8: no call (expansion, head_deployment, worker_deployments,
\* to_k8s_yaml, the gateway rendering included) changes self.args: it is
\* deep-equal after every step to what it was before.
C8_SelfArgsNeverMutated == [][SelfArgsValue' = SelfArgsValue]_vars

\* The gateway has been rendered: the copy of the common arguments carries
\* pods_addresses while self.args still has none.
C8_Witness ==
    /\ Returned("to_k8s_yaml") /\ IsGateway /\ Len(units) = 1
    /\ ~SelfArgs.k8s_connection_pool
    /\ heap.ns[units[1].yamls.container_args[1].arguments].pods_addresses
           = <<"enc-head.ns.svc:K8S_PORT_IN">>
    /\ SelfArgs.pods_addresses = NoList

\* C9: on a non-gateway Pod the head carries uses_before_address =
\* "127.0.0.1:<pre-filter port>" exactly when uses_before is configured
\* (likewise uses_after), the head unit renders 1 + (number of configured
\* filters) sets of container arguments, each filter on its own port, and
\* every worker has uses_before = uses_after = None and renders no filter.
C9_FiltersOnHeadOnly ==
    (~IsGateway /\ raised = "none") =>
        /\ \A r \in HeadRefs :
              /\ heap.ns[r].uses_before_address =
                    IF Truthy(SelfArgs.uses_before)
                    THEN "127.0.0.1:" \o K8S_PORT_USES_BEFORE ELSE None
              /\ heap.ns[r].uses_after_address =
                    IF Truthy(SelfArgs.uses_after)
                    THEN "127.0.0.1:" \o K8S_PORT_USES_AFTER ELSE None
        /\ \A r \in WorkerRefs :
              heap.ns[r].uses_before = None /\ heap.ns[r].uses_after = None
        /\ \A i \in 1..Len(units) :
              LET y == units[i].yamls
                  nb == Len(y.container_args_uses_before)
                  na == Len(y.container_args_uses_after)
              IN /\ Len(y.container_args) = 1
                 /\ IF y.pea_type = "head"
                    THEN /\ nb = (IF Truthy(SelfArgs.uses_before) THEN 1 ELSE 0)
                         /\ na = (IF Truthy(SelfArgs.uses_after) THEN 1 ELSE 0)
                         /\ nb = 1 => y.container_args_uses_before[1].port_in
                                          = K8S_PORT_USES_BEFORE
                         /\ na = 1 => y.container_args_uses_after[1].port_in
                                          = K8S_PORT_USES_AFTER
                    ELSE nb = 0 /\ na = 0

C9_Witness ==
    /\ Returned("to_k8s_yaml") /\ ~IsGateway /\ SelfArgs.shards = 2
    /\ Truthy(SelfArgs.uses_before) /\ ~Truthy(SelfArgs.uses_after)
    /\ Len(units) = 3
    /\ Len(units[1].yamls.container_args_uses_before) = 1
    /\ Len(units[1].yamls.container_args_uses_after) = 0
    /\ heap.ns[built[1].deployment_args].uses_after_address = None

\* The mutable objects a descriptor's arguments consist of: the Namespace
\* and the mapping uses_with refers to.
ArgObjects(r) ==
    {<<"ns", r>>}
    \cup (IF heap.ns[r].uses_with = 0 THEN {} ELSE {<<"map", heap.ns[r].uses_with>>})

\* C10: among the descriptors one to_k8s_yaml call builds, no two hold the
\* same argument object or a shared mutable part of it (the uses_with
\* mapping), and none shares one with self.args.
C10_NoSharedArguments ==
    (Returned("to_k8s_yaml") /\ ValidCounts) =>
        /\ \A i, j \in 1..Len(built) :
              i # j => ArgObjects(built[i].deployment_args)
                         \cap ArgObjects(built[j].deployment_args) = {}
        /\ \A i \in 1..Len(built) :
              ArgObjects(built[i].deployment_args) \cap ArgObjects(SELF) = {}

====
